---- MODULE Spec2Model ----
(***************************************************************************)
(* Stack Resource Policy schedulability analysis (src/srp_analysis/mod.rs).*)
(*                                                                         *)
(* The analysis is a family of pure functions over an immutable task set.  *)
(* The state machine draws a task set and a build profile, then applies    *)
(* one operation at a time and records its outcome.                        *)
(*                                                                         *)
(* u32 values are kept at their full width as a pair <<hi, lo>> of 16-bit  *)
(* limbs (value = hi * 2^16 + lo).  Every arithmetic step reports whether  *)
(* it overflowed: a build with overflow checks (debug) panics there, a     *)
(* build without them (release) continues with the wrapped value.          *)
(* f32 values are kept as a 24-bit significand and a binary exponent.      *)
(*                                                                         *)
(* A computed u32 is a record [v, ovf]: the value the wrapping arithmetic  *)
(* yields, and whether any step that was executed overflowed.              *)
(***************************************************************************)
EXTENDS Integers, Sequences, FiniteSets, TLC

VARIABLES tasks, overflow_checks, op, arg, ret, stack, starts

vars == <<tasks, overflow_checks, op, arg, ret, stack, starts>>

(***************************************************************************)
(* u32: 16-bit limbs                                                       *)
(***************************************************************************)
Limb == 2^16

U32(n) == <<n \div Limb, n % Limb>>

U32Zero == <<0, 0>>

U32Max == <<Limb - 1, Limb - 1>>

U32Lt(a, b) == a[1] < b[1] \/ (a[1] = b[1] /\ a[2] < b[2])

U32Le(a, b) == a = b \/ U32Lt(a, b)

AddLimbs(hi, lo) ==
    [v   |-> <<(hi + (lo \div Limb)) % Limb, lo % Limb>>,
     ovf |-> hi + (lo \div Limb) >= Limb]

\* a + b: the wrapped sum and whether the true sum left the u32 range.
U32Add(a, b) == AddLimbs(a[1] + b[1], a[2] + b[2])

SubLimbs(hi, lo) == [v |-> <<hi % Limb, lo>>, ovf |-> hi < 0]

\* a - b: the wrapped difference and whether b > a.
U32Sub(a, b) ==
    IF a[2] < b[2] THEN SubLimbs(a[1] - b[1] - 1, a[2] + Limb - b[2])
                   ELSE SubLimbs(a[1] - b[1], a[2] - b[2])

Shl8(t) == <<t \div 256, (t % 256) * 256>>

\* The product of two 16-bit limbs, as a u32 (it always fits).
LimbMul(x, y) == U32Add(Shl8((x \div 256) * y), U32((x % 256) * y)).v

MulParts(ll, hl, lh, both) ==
    [v   |-> <<(hl[2] + lh[2] + ll[1]) % Limb, ll[2]>>,
     ovf |-> both \/ hl[1] > 0 \/ lh[1] > 0 \/ hl[2] + lh[2] + ll[1] >= Limb]

\* a * b: the wrapped product and whether the true product left the range.
U32Mul(a, b) ==
    MulParts(LimbMul(a[2], b[2]), LimbMul(a[1], b[2]), LimbMul(a[2], b[1]),
             a[1] > 0 /\ b[1] > 0)

(***************************************************************************)
(* f32: value = m * 2^e with m <= 2^24; inf and nan are separate kinds.    *)
(* Only the values the analysis forms are covered: conversions of u32,     *)
(* quotients of two such conversions, their ceiling, and the cast back.    *)
(***************************************************************************)
Mant == 2^24

Num(m, e) == [kind |-> "num", m |-> m, e |-> e]

RECURSIVE BitLen(_)
BitLen(n) == IF n = 0 THEN 0 ELSE 1 + BitLen(n \div 2)

Normal(m, s) == IF m = Mant THEN Num(Mant \div 2, s + 1) ELSE Num(m, s)

\* Round to nearest, ties to even, on the s bits dropped.
Rounded(kept, rem, half, s) ==
    IF rem > half \/ (rem = half /\ kept % 2 = 1)
    THEN Normal(kept + 1, s) ELSE Num(kept, s)

Round24(u, s) ==
    Rounded(u[1] * 2^(16 - s) + (u[2] \div 2^s), u[2] % 2^s, 2^(s - 1), s)

\* `x as f32` for a u32 x: exact below 2^24, else rounded to 24 bits.
U32ToF32(u) ==
    IF u[1] < 256 THEN Num(u[1] * Limb + u[2], 0)
                  ELSE Round24(u, BitLen(u[1]) - 8)

\* Long division mx / my carried on until the quotient has 25 bits:
\* <<quotient bits, remainder, number of fractional bits>>.
RECURSIVE DivBits(_, _, _, _)
DivBits(q, r, k, my) ==
    IF q >= Mant THEN <<q, r, k>>
    ELSE DivBits(2 * q + (IF 2 * r >= my THEN 1 ELSE 0), (2 * r) % my, k + 1, my)

\* 24 bits of the quotient, rounded on the 25th and the remainder.
Quotient(d, e) ==
    Num(IF d[1] % 2 = 1 /\ (d[2] # 0 \/ (d[1] \div 2) % 2 = 1)
        THEN (d[1] \div 2) + 1 ELSE d[1] \div 2,
        1 - d[3] + e)

\* x / y in f32 for finite non-negative x, y: IEEE division, ties to even.
F32Div(x, y) ==
    IF y.m = 0
    THEN IF x.m = 0 THEN [kind |-> "nan", m |-> 0, e |-> 0]
                    ELSE [kind |-> "inf", m |-> 0, e |-> 0]
    ELSE IF x.m = 0 THEN Num(0, 0)
    ELSE Quotient(DivBits(x.m \div y.m, x.m % y.m, 0, y.m), x.e - y.e)

CeilDiv(m, d) == U32((m \div d) + (IF m % d # 0 THEN 1 ELSE 0))

\* `x.ceil() as u32`: the ceiling, then the saturating cast (nan casts to 0).
\* A value with e > 0 is normalised (m >= 2^23), so it reaches 2^32 exactly
\* when e >= 9, or e = 8 and the significand was rounded up to 2^24.
F32CeilToU32(x) ==
    IF x.kind = "nan" THEN U32Zero
    ELSE IF x.kind = "inf" THEN U32Max
    ELSE IF x.m = 0 THEN U32Zero
    ELSE IF x.e >= 9 \/ (x.e = 8 /\ x.m >= Mant) THEN U32Max
    ELSE IF x.e >= 0
         THEN <<x.m \div 2^(16 - x.e), (x.m % 2^(16 - x.e)) * 2^(x.e)>>
         ELSE IF 0 - x.e >= 25 THEN U32(1)
              ELSE CeilDiv(x.m, 2^(0 - x.e))

(***************************************************************************)
(* Data model: Task and Trace.  A Trace is a record whose `inner` is a      *)
(* sequence of Traces.  A reference to a trace nested in a tree is the     *)
(* path of child indices that leads to it (<<>> is the tree's root).       *)
(***************************************************************************)
Trace(id, start, end, inner) ==
    [id |-> id, start |-> U32(start), end |-> U32(end), inner |-> inner]

Task(id, prio, deadline, inter_arrival, start, end, inner) ==
    [id |-> id, prio |-> prio, deadline |-> U32(deadline),
     inter_arrival |-> U32(inter_arrival),
     trace |-> Trace(id, start, end, inner)]

RECURSIVE NodeAt(_, _)
NodeAt(trace, path) ==
    IF path = <<>> THEN trace ELSE NodeAt(trace.inner[Head(path)], Tail(path))

(***************************************************************************)
(* Iterator adaptors                                                       *)
(***************************************************************************)
\* flat_map's concatenation of the inner iterators, in order.
RECURSIVE Flatten(_)
Flatten(ss) == IF ss = <<>> THEN <<>> ELSE Head(ss) \o Flatten(Tail(ss))

MaxStep(x, rest) ==
    IF rest.some /\ U32Lt(x, rest.v) THEN rest ELSE [some |-> TRUE, v |-> x]

\* Iterator::max over u32 values, None on an empty iterator.
RECURSIVE IterMax(_)
IterMax(s) ==
    IF s = <<>> THEN [some |-> FALSE, v |-> U32Zero]
    ELSE MaxStep(Head(s), IterMax(Tail(s)))

\* Option::unwrap_or(0)
UnwrapOr0(m) == IF m.some THEN m.v ELSE U32Zero

SumStep(acc, step) == [v |-> step.v, ovf |-> acc.ovf \/ step.ovf]

\* Iterator::sum over u32 values: left to right from 0, each step checked.
RECURSIVE IterSumFrom(_, _)
IterSumFrom(acc, s) ==
    IF s = <<>> THEN acc
    ELSE IterSumFrom(SumStep(acc, U32Add(acc.v, Head(s))), Tail(s))

AnyOvf(s) == \E k \in 1..Len(s) : s[k].ovf

Values(s) == [k \in 1..Len(s) |-> s[k].v]

WithOvf(r, o) == [v |-> r.v, ovf |-> r.ovf \/ o]

\* The sum of computed values: overflows while computing them count too.
IterSum(xs) ==
    WithOvf(IterSumFrom([v |-> U32Zero, ovf |-> FALSE], Values(xs)), AnyOvf(xs))

AddOf(x, y, s) == [v |-> s.v, ovf |-> x.ovf \/ y.ovf \/ s.ovf]

\* x + y for two computed values.
AddChecked(x, y) == AddOf(x, y, U32Add(x.v, y.v))

(***************************************************************************)
(* Schedulable for Trace and Task                                          *)
(***************************************************************************)
\* self.end - self.start, unguarded.
Trace_wcet(self) == U32Sub(self.end, self.start)

Task_wcet(self) == U32Sub(self.trace.end, self.trace.start)

Prefixed(k, sub) == [j \in 1..Len(sub) |-> <<k>> \o sub[j]]

RECURSIVE Trace_resources(_)

\* A depth-first variant: each child followed at once by what lies below it.
Trace_resources_DepthFirst(self) ==
    Flatten([k \in 1..Len(self.inner) |->
               <<<<k>>>> \o Prefixed(k, Trace_resources(self.inner[k]))])

\* self.inner.iter().chain(self.inner.iter().flat_map(|n| n.resources())):
\* the references yielded, as paths from self.
Trace_resources(self) ==
    [k \in 1..Len(self.inner) |-> <<k>>]
    \o Flatten([k \in 1..Len(self.inner) |->
                  Prefixed(k, Trace_resources(self.inner[k]))])

Task_resources(self) == Trace_resources(self.trace)

NodesAt(trace, ps) == [j \in 1..Len(ps) |-> NodeAt(trace, ps[j])]

\* The traces a task's resources() iterator yields, in its order.
ResourceNodes(task) == NodesAt(task.trace, Task_resources(task))

(***************************************************************************)
(* TraceSchedulable for Trace                                              *)
(***************************************************************************)
\* task.resources().any(|res| res.id == self.id)
AnyId(rs, id) == \E j \in 1..Len(rs) : rs[j].id = id

\* A variant whose default is 0.
MaxPrioOr0(users) ==
    IF users = <<>> THEN 0
    ELSE CHOOSE m \in {users[k].prio : k \in 1..Len(users)} :
             \A k \in 1..Len(users) : users[k].prio <= m

\* .map(|task| task.prio).max().unwrap_or(1)
MaxPrioOr1(users) ==
    IF users = <<>> THEN 1
    ELSE CHOOSE m \in {users[k].prio : k \in 1..Len(users)} :
             \A k \in 1..Len(users) : users[k].prio <= m

\* A variant that looks for the id at the root trace of each task instead
\* of among its resources().
ceiling_priority_RootOnly(self, ts) ==
    MaxPrioOr1(SelectSeq(ts, LAMBDA task : task.trace.id = self.id))

ceiling_priority(self, ts) ==
    MaxPrioOr1(SelectSeq(ts, LAMBDA task : AnyId(ResourceNodes(task), self.id)))

(***************************************************************************)
(* TaskSchedulable for Task                                                *)
(***************************************************************************)
\* .filter(|l| l.prio < self.prio)
LowerPriority(ts, prio) == SelectSeq(ts, LAMBDA l : l.prio < prio)

\* The filter_map closure on each resource of one lower-priority task: the
\* critical section is computed first, then kept when the ceiling allows.
CriticalSections(rs, ts, prio) ==
    [j \in 1..Len(rs) |->
        [cs   |-> Trace_wcet(rs[j]),
         keep |-> ceiling_priority(rs[j], ts) >= prio]]

FlatMapSections(ls, ts, prio) ==
    Flatten([k \in 1..Len(ls) |-> CriticalSections(ResourceNodes(ls[k]), ts, prio)])

KeptSections(all) == SelectSeq(all, LAMBDA x : x.keep)

SectionValues(kept) == [k \in 1..Len(kept) |-> kept[k].cs.v]

\* A variant that adds up the kept critical sections.
BlockingOf_Sum(all) ==
    [v   |-> IterSumFrom([v |-> U32Zero, ovf |-> FALSE],
                         SectionValues(KeptSections(all))).v,
     ovf |-> \E k \in 1..Len(all) : all[k].cs.ovf]

\* .max().unwrap_or(0) over what the closure kept
BlockingOf(all) ==
    [v   |-> UnwrapOr0(IterMax(SectionValues(KeptSections(all)))),
     ovf |-> \E k \in 1..Len(all) : all[k].cs.ovf]

blocking_time(self, ts) ==
    BlockingOf(FlatMapSections(LowerPriority(ts, self.prio), ts, self.prio))

Wcets(sel) == [k \in 1..Len(sel) |-> Task_wcet(sel[k])]

busy_period(self, ts) ==
    IterSum(Wcets(SelectSeq(ts, LAMBDA t : t.prio >= self.prio)))

\* (self.busy_period(tasks) as f32 / h.inter_arrival as f32).ceil() as u32
Activations(bp, inter_arrival) ==
    F32CeilToU32(F32Div(U32ToF32(bp), U32ToF32(inter_arrival)))

TermOf(c, bp, prod) == [v |-> prod.v, ovf |-> c.ovf \/ bp.ovf \/ prod.ovf]

\* h.wcet() * activations, for one higher-priority task h
InterferenceTerm(h, c, bp) ==
    TermOf(c, bp, U32Mul(c.v, Activations(bp.v, h.inter_arrival)))

InterferenceTerms(sel, self, ts) ==
    [k \in 1..Len(sel) |->
        InterferenceTerm(sel[k], Task_wcet(sel[k]), busy_period(self, ts))]

interference(self, ts) ==
    IterSum(InterferenceTerms(SelectSeq(ts, LAMBDA h : h.prio > self.prio),
                              self, ts))

Ok(x) == [kind |-> "Ok", v |-> x.v, ovf |-> x.ovf]

\* if total_response_time > self.deadline { Err } else { Ok }
DeadlineCheck(self, total) ==
    IF U32Lt(self.deadline, total.v)
    THEN [kind |-> "Err", msg |-> "Deadline missed", ovf |-> total.ovf]
    ELSE Ok(total)

\* A variant of the Approximate arm that checks the deadline as well.
ApproximateArm_Checked(self, ts) ==
    DeadlineCheck(self,
                  AddChecked(AddChecked(blocking_time(self, ts), Task_wcet(self)),
                             interference(self, ts)))

\* The Approximate arm: b_t + c_t + i_t, no deadline check.
ApproximateArm(self, ts) ==
    Ok(AddChecked(AddChecked(blocking_time(self, ts), Task_wcet(self)),
                  interference(self, ts)))

\* The Exact arm's starting total: b_t + c_t.
ExactStart(self, ts) == AddChecked(blocking_time(self, ts), Task_wcet(self))

RECURSIVE ExactLoop(_, _, _, _)
RECURSIVE ExactStep(_, _, _, _, _)

\* The Exact arm of response_time for `self`, at position k of its loop over
\* tasks.iter().filter(|h| h.prio > self.prio) with `total` accumulated so
\* far; after the loop, the deadline check.  The recursive call on a higher
\* priority task is that task's whole Exact arm.
ExactLoop(self, ts, k, total) ==
    IF k > Len(ts) THEN DeadlineCheck(self, total)
    ELSE IF ts[k].prio > self.prio
    THEN ExactStep(self, ts, k, total,
                   ExactLoop(ts[k], ts, 1, ExactStart(ts[k], ts)))
    ELSE ExactLoop(self, ts, k + 1, total)

\* A variant that skips a failed recursive call and goes on with the loop.
ExactStep_Skip(self, ts, k, total, r) ==
    IF r.kind = "Err"
    THEN ExactLoop(self, ts, k + 1, total)
    ELSE ExactLoop(self, ts, k + 1, AddChecked(total, r))

\* `let interference = h.response_time(tasks, mode)?; total += interference`
ExactStep(self, ts, k, total, r) ==
    IF r.kind = "Err"
    THEN [kind |-> "Err", msg |-> r.msg, ovf |-> total.ovf \/ r.ovf]
    ELSE ExactLoop(self, ts, k + 1, AddChecked(total, r))

response_time(self, ts, mode) ==
    IF mode = "Approximate" THEN ApproximateArm(self, ts)
                            ELSE ExactLoop(self, ts, 1, ExactStart(self, ts))

(***************************************************************************)
(* total_load_factor and srp_analyze                                       *)
(***************************************************************************)
\* acc + task.wcet() as f32 / task.inter_arrival as f32.  The f32 sum is
\* carried as the list of its summands <<wcet as f32, inter_arrival as f32>>.
LoadStep(acc, c, inter_arrival) ==
    [v   |-> Append(acc.v, <<U32ToF32(c.v), U32ToF32(inter_arrival)>>),
     ovf |-> acc.ovf \/ c.ovf]

\* try_fold from position k on.
RECURSIVE LoadFold(_, _, _)
LoadFold(ts, k, acc) ==
    IF k > Len(ts) THEN Ok(acc)
    ELSE IF ts[k].inter_arrival = U32Zero
    THEN [kind |-> "Err",
          msg  |-> <<"Error: Task '{}' has an inter_arrival time of zero.",
                     ts[k].id>>,
          ovf  |-> acc.ovf]
    ELSE LoadFold(ts, k + 1, LoadStep(acc, Task_wcet(ts[k]), ts[k].inter_arrival))

total_load_factor(ts) == LoadFold(ts, 1, [v |-> <<>>, ovf |-> FALSE])

\* A Result<_, String> as the caller sees it.
Result(r) ==
    IF r.kind = "Ok" THEN [kind |-> "Ok", v |-> r.v]
                     ELSE [kind |-> "Err", msg |-> r.msg]

\* A variant with the tuple order of the doc comment on srp_analyze,
\* Vec<&Task, R(t), C(t), B(t), I(t)>.
Row_DocOrder(k, response_time_, blocking_time_, critical_time, interference_) ==
    [v   |-> <<k, Result(response_time_), critical_time.v,
               blocking_time_.v, interference_.v>>,
     ovf |-> response_time_.ovf \/ blocking_time_.ovf
             \/ critical_time.ovf \/ interference_.ovf]

\* One pushed tuple; the task reference is the task's position in the set.
Row(k, response_time_, blocking_time_, critical_time, interference_) ==
    [v   |-> <<k, Result(response_time_), blocking_time_.v,
               critical_time.v, interference_.v>>,
     ovf |-> response_time_.ovf \/ blocking_time_.ovf
             \/ critical_time.ovf \/ interference_.ovf]

AnalyzeRow(ts, k, mode) ==
    Row(k, response_time(ts[k], ts, mode), blocking_time(ts[k], ts),
        Task_wcet(ts[k]), interference(ts[k], ts))

Collected(rows) == [v |-> Values(rows), ovf |-> AnyOvf(rows)]

srp_analyze(ts, mode) ==
    Collected([k \in 1..Len(ts) |-> AnalyzeRow(ts, k, mode)])

(***************************************************************************)
(* Task sets                                                               *)
(***************************************************************************)
MaxTasks == 3

TaskNames == <<"T1", "T2", "T3", "T4", "T5", "T6">>

PreemptionMode == {"Exact", "Approximate"}

\* Task shapes a set is drawn from: prio, deadline, inter_arrival, the root
\* interval and the nested resource accesses.
Templates ==
    { \* low priority, two nested chains (depth 3 and depth 2)
      [prio |-> 1, deadline |-> 20, inter_arrival |-> 10, start |-> 0, end |-> 4,
       inner |-> << Trace("R1", 0, 3, << Trace("R2", 1, 3,
                                           << Trace("R3", 2, 3, <<>>) >>) >>),
                    Trace("R2", 3, 4, << Trace("R1", 3, 4, <<>>) >>) >>],
      \* middle priority, two sibling resources
      [prio |-> 2, deadline |-> 4, inter_arrival |-> 3, start |-> 0, end |-> 2,
       inner |-> << Trace("R3", 0, 2, <<>>), Trace("R1", 1, 2, <<>>) >>],
      \* high priority, deadline equal to its own execution time
      [prio |-> 3, deadline |-> 2, inter_arrival |-> 5, start |-> 0, end |-> 2,
       inner |-> << Trace("R2", 0, 1, <<>>) >>],
      \* root interval and nested resource access with end < start
      [prio |-> 2, deadline |-> 5, inter_arrival |-> 2, start |-> 2, end |-> 1,
       inner |-> << Trace("R3", 3, 1, <<>>) >>],
      \* inter_arrival of zero
      [prio |-> 3, deadline |-> 4, inter_arrival |-> 0, start |-> 0, end |-> 1,
       inner |-> <<>>],
      \* lowest priority, execution time 2^24 + 3, deadline 2^25
      [prio |-> 0, deadline |-> 33554432, inter_arrival |-> 33554432,
       start |-> 0, end |-> 16777219, inner |-> <<>>] }

MakeTask(k, t) ==
    Task(TaskNames[k], t.prio, t.deadline, t.inter_arrival, t.start, t.end, t.inner)

TaskSets ==
    UNION { { [k \in 1..n |-> MakeTask(k, shape[k])] :
                shape \in [1..n -> Templates] } : n \in 0..MaxTasks }

Range(s) == {s[j] : j \in 1..Len(s)}

\* A trace that belongs to no task.
Detached == Trace("R4", 0, 1, <<>>)

\* The traces a caller can hand to ceiling_priority.
ProbeTraces(ts) ==
    {Detached}
    \cup {ts[k].trace : k \in 1..Len(ts)}
    \cup UNION { Range(ResourceNodes(ts[k])) : k \in 1..Len(ts) }

\* The references into task k's tree: its root and everything below.
TracePaths(ts, k) == {<<>>} \cup Range(Task_resources(ts[k]))

(***************************************************************************)
(* State machine                                                           *)
(***************************************************************************)
\* No call has been made, or the caller has taken the last result.
NoReturn == [kind |-> "None"]

\* A panic: 'attempt to subtract / add / multiply with overflow'.
Panicked == [kind |-> "Panic", msg |-> "arithmetic overflow"]

Init ==
    /\ tasks \in TaskSets
    /\ overflow_checks \in BOOLEAN
    /\ op = "idle"
    /\ arg = <<>>
    /\ ret = NoReturn
    /\ stack = <<>>
    /\ starts = <<>>

\* The call `o(a)` runs to its end: it returns r.v, or panics when an
\* arithmetic step overflowed and the build checks overflow.
Finish(o, a, r) ==
    /\ op = "idle"
    /\ op' = o
    /\ arg' = a
    /\ ret' = IF r.ovf /\ overflow_checks
              THEN Panicked
              ELSE [kind |-> "Returned", v |-> r.v]
    /\ UNCHANGED <<tasks, overflow_checks, stack, starts>>

\* A value computed without arithmetic.
Pure(x) == [v |-> x, ovf |-> FALSE]

\* A computed Result.
Fallible(r) == [v |-> Result(r), ovf |-> r.ovf]

Call_Task_wcet ==
    \E i \in 1..Len(tasks) :
        Finish("Task::wcet", <<i>>, Task_wcet(tasks[i]))

Call_Trace_wcet ==
    \E i \in 1..Len(tasks) : \E p \in TracePaths(tasks, i) :
        Finish("Trace::wcet", <<i, p>>, Trace_wcet(NodeAt(tasks[i].trace, p)))

Call_Task_resources ==
    \E i \in 1..Len(tasks) :
        Finish("Task::resources", <<i>>, Pure(Task_resources(tasks[i])))

Call_Trace_resources ==
    \E i \in 1..Len(tasks) : \E p \in TracePaths(tasks, i) :
        Finish("Trace::resources", <<i, p>>,
               Pure(Trace_resources(NodeAt(tasks[i].trace, p))))

Call_ceiling_priority ==
    \E r \in ProbeTraces(tasks) :
        Finish("ceiling_priority", <<r>>, Pure(ceiling_priority(r, tasks)))

Call_blocking_time ==
    \E i \in 1..Len(tasks) :
        Finish("blocking_time", <<i>>, blocking_time(tasks[i], tasks))

Call_busy_period ==
    \E i \in 1..Len(tasks) :
        Finish("busy_period", <<i>>, busy_period(tasks[i], tasks))

Call_interference ==
    \E i \in 1..Len(tasks) :
        Finish("interference", <<i>>, interference(tasks[i], tasks))

Call_response_time ==
    \E i \in 1..Len(tasks) : \E mode \in PreemptionMode :
        Finish("response_time", <<i, mode>>,
               Fallible(response_time(tasks[i], tasks, mode)))

Call_total_load_factor ==
    Finish("total_load_factor", <<>>, Fallible(total_load_factor(tasks)))

Call_srp_analyze ==
    \E mode \in PreemptionMode :
        Finish("srp_analyze", <<mode>>, srp_analyze(tasks, mode))

\* The caller takes the returned value; the task set is as it was.  After a
\* panic nothing more runs.
Return ==
    /\ ret.kind = "Returned"
    /\ stack = <<>>
    /\ op' = "idle"
    /\ arg' = <<>>
    /\ ret' = NoReturn
    /\ starts' = <<>>
    /\ UNCHANGED <<tasks, overflow_checks, stack>>

Next ==
    \/ Call_Task_wcet
    \/ Call_Trace_wcet
    \/ Call_Task_resources
    \/ Call_Trace_resources
    \/ Call_ceiling_priority
    \/ Call_blocking_time
    \/ Call_busy_period
    \/ Call_interference
    \/ Call_response_time
    \/ Call_total_load_factor
    \/ Call_srp_analyze
    \/ Return

Spec == Init /\ [][Next]_vars

(***************************************************************************)
(* The Exact arm of response_time, one step of its recursion at a time.    *)
(* `stack` holds the activations of response_time, the innermost last:     *)
(* the task `self`, the position k of its loop over the task set and the   *)
(* total accumulated so far.  `starts` tabulates b_t + c_t for each task   *)
(* when the outermost call begins: the task set does not change, so the    *)
(* value an activation computes on entry is the tabulated one.             *)
(***************************************************************************)
\* A variant of the loop's filter that lets equal priorities through.
IsHigherOrEqual(h, self) == h.prio >= self.prio

\* .filter(|h| h.prio > self.prio)
IsHigher(h, self) == h.prio > self.prio

Top == stack[Len(stack)]

Popped == SubSeq(stack, 1, Len(stack) - 1)

\* A call on task i starts above the activations `below`: b_t, c_t and
\* `let mut total_response_time = b_t + c_t`.  A panic unwinds every
\* activation.
Entered(i, below, start) ==
    /\ stack' = IF start.ovf /\ overflow_checks
                THEN <<>>
                ELSE Append(below, [self |-> i, k |-> 1, total |-> start.v])
    /\ ret' = IF start.ovf /\ overflow_checks THEN Panicked ELSE NoReturn

Exact_Call ==
    /\ op = "idle"
    /\ \E i \in 1..Len(tasks) :
           /\ op' = "response_time"
           /\ arg' = <<i, "Exact">>
           /\ Entered(i, <<>>, ExactStart(tasks[i], tasks))
    /\ starts' = [k \in 1..Len(tasks) |-> ExactStart(tasks[k], tasks)]
    /\ UNCHANGED <<tasks, overflow_checks>>

\* The loop's filter rejects tasks[k].
Exact_Skip ==
    /\ stack # <<>>
    /\ ret.kind = "None"
    /\ Top.k <= Len(tasks)
    /\ ~ IsHigher(tasks[Top.k], tasks[Top.self])
    /\ stack' = [stack EXCEPT ![Len(stack)].k = @ + 1]
    /\ UNCHANGED <<tasks, overflow_checks, op, arg, ret, starts>>

\* higher_priority_task.response_time(tasks, mode)
Exact_Recurse ==
    /\ stack # <<>>
    /\ ret.kind = "None"
    /\ Top.k <= Len(tasks)
    /\ IsHigher(tasks[Top.k], tasks[Top.self])
    /\ Entered(Top.k, stack, starts[Top.k])
    /\ UNCHANGED <<tasks, overflow_checks, op, arg, starts>>

\* The loop is over: the deadline check, and the activation returns.
Exact_Finish ==
    /\ stack # <<>>
    /\ ret.kind = "None"
    /\ Top.k > Len(tasks)
    /\ ret' = [kind |-> "Returned",
               v    |-> Result(DeadlineCheck(tasks[Top.self],
                                             [v |-> Top.total, ovf |-> FALSE]))]
    /\ stack' = Popped
    /\ UNCHANGED <<tasks, overflow_checks, op, arg, starts>>

\* `total_response_time += interference` with the value that came back.
Added(sum) ==
    /\ stack' = IF sum.ovf /\ overflow_checks
                THEN <<>>
                ELSE [stack EXCEPT ![Len(stack)].total = sum.v,
                                   ![Len(stack)].k = @ + 1]
    /\ ret' = IF sum.ovf /\ overflow_checks THEN Panicked ELSE NoReturn

\* The caller gets the callee's result: `?` returns an Err at once, an Ok
\* value is added to the total and the loop goes on.
Exact_Resume ==
    /\ stack # <<>>
    /\ ret.kind = "Returned"
    /\ IF ret.v.kind = "Err"
       THEN /\ stack' = Popped
            /\ ret' = ret
       ELSE Added(U32Add(Top.total, ret.v.v))
    /\ UNCHANGED <<tasks, overflow_checks, op, arg, starts>>

Exact_Run == Exact_Skip \/ Exact_Recurse \/ Exact_Finish \/ Exact_Resume

ExactNext ==
    \/ Exact_Call
    \/ Exact_Skip
    \/ Exact_Recurse
    \/ Exact_Finish
    \/ Exact_Resume
    \/ Return

\* A call that has started keeps running: nothing else runs in its thread.
\* Every step of the run changes `stack`.
ExactSpec == Init /\ [][ExactNext]_vars /\ WF_stack(Exact_Run)

(***************************************************************************)
(* Definitions the properties are stated with                              *)
(***************************************************************************)
\* Every trace nested below `trace`, as the set of paths from it.
RECURSIVE AllPaths(_)
AllPaths(trace) ==
    {<<k>> : k \in 1..Len(trace.inner)}
    \cup UNION { {<<k>> \o p : p \in AllPaths(trace.inner[k])} :
                 k \in 1..Len(trace.inner) }

\* The order the traversal contract gives two distinct paths below one node:
\* direct children first, by index; then what lies below the first child,
\* then below the second, ..., each in this same order.
RECURSIVE Before(_, _)
Before(p, q) ==
    IF Len(p) = 1 THEN Len(q) > 1 \/ p[1] < q[1]
    ELSE IF Len(q) = 1 THEN FALSE
    ELSE IF p[1] # q[1] THEN p[1] < q[1]
    ELSE Before(Tail(p), Tail(q))

U32SetMax(S) == CHOOSE m \in S : \A x \in S : U32Le(x, m)

IntSetMax(S) == CHOOSE m \in S : \A x \in S : x <= m

\* The node a resources call was made on.
CalledNode ==
    IF op = "Task::resources" THEN tasks[arg[1]].trace
                              ELSE NodeAt(tasks[arg[1]].trace, arg[2])

\* The critical sections that can block task i: wcet(r) for every trace r
\* below a strictly lower priority task whose ceiling reaches prio(i).
Blockers(i) ==
    UNION { { Trace_wcet(NodeAt(tasks[l].trace, p)).v :
                p \in { q \in AllPaths(tasks[l].trace) :
                          ceiling_priority(NodeAt(tasks[l].trace, q), tasks)
                              >= tasks[i].prio } } :
            l \in { k \in 1..Len(tasks) : tasks[k].prio < tasks[i].prio } }

\* The tasks that access resource id `rid` somewhere below their root.
Users(rid) ==
    { k \in 1..Len(tasks) :
        \E p \in AllPaths(tasks[k].trace) : NodeAt(tasks[k].trace, p).id = rid }

(***************************************************************************)
(* C1: whenever blocking_time(t, tasks) returns, its value is the single   *)
(* maximum of wcet(r) over the traces r below strictly lower priority      *)
(* tasks whose ceiling priority is at least prio(t), and 0 when there is   *)
(* no such trace; it is never a sum of several critical sections.          *)
(***************************************************************************)
C1_BlockingIsSingleMax ==
    (op = "blocking_time" /\ ret.kind = "Returned") =>
        ret.v = IF Blockers(arg[1]) = {} THEN U32Zero
                ELSE U32SetMax(Blockers(arg[1]))

\* Two different critical sections qualify, a third trace of a lower
\* priority task does not, and the larger one is returned.
C1_Witness ==
    /\ op = "blocking_time"
    /\ ret.kind = "Returned"
    /\ Cardinality(Blockers(arg[1])) >= 2
    /\ ret.v = U32(2)
    /\ \E l \in 1..Len(tasks) : \E p \in AllPaths(tasks[l].trace) :
           /\ tasks[l].prio < tasks[arg[1]].prio
           /\ ceiling_priority(NodeAt(tasks[l].trace, p), tasks) < tasks[arg[1]].prio

(***************************************************************************)
(* C4: resources(node) yields exactly the traces below node, each once,    *)
(* direct children first in declaration order, then for each child in that *)
(* order the whole resources(child) sequence; so every depth-1 trace comes *)
(* before any deeper one, a node without children yields nothing, and      *)
(* resources(task) is resources(task.trace).                               *)
(***************************************************************************)
C4_ResourcesOrder ==
    (op \in {"Trace::resources", "Task::resources"} /\ ret.kind = "Returned") =>
        /\ {ret.v[a] : a \in 1..Len(ret.v)} = AllPaths(CalledNode)
        /\ Len(ret.v) = Cardinality(AllPaths(CalledNode))
        /\ \A a, b \in 1..Len(ret.v) : a < b => Before(ret.v[a], ret.v[b])
        /\ \A a, b \in 1..Len(ret.v) :
               (Len(ret.v[a]) = 1 /\ Len(ret.v[b]) > 1) => a < b
        /\ (CalledNode.inner = <<>>) => (ret.v = <<>>)

\* A task whose first child nests two levels and whose second child nests
\* one: the grandchild of the first child comes before the child of the second.
C4_Witness ==
    /\ op = "Task::resources"
    /\ ret.kind = "Returned"
    /\ ret.v = << <<1>>, <<2>>, <<1, 1>>, <<1, 1, 1>>, <<2, 1>> >>

(***************************************************************************)
(* C5: ceiling_priority(resource, tasks) is the largest prio among the     *)
(* tasks that have a trace with resource's id below their root (the root   *)
(* trace itself does not count), and exactly 1 when there is no such task. *)
(***************************************************************************)
C5_CeilingIsMaxUserPrio ==
    (op = "ceiling_priority" /\ ret.kind = "Returned") =>
        ret.v = IF Users(arg[1].id) = {} THEN 1
                ELSE IntSetMax({tasks[k].prio : k \in Users(arg[1].id)})

\* The resource is the root trace of a task of priority 3 that no task
\* nests: the root does not count and the ceiling is the default 1.
C5_Witness ==
    /\ op = "ceiling_priority"
    /\ ret.kind = "Returned"
    /\ \E k \in 1..Len(tasks) : tasks[k].trace = arg[1] /\ tasks[k].prio = 3
    /\ Users(arg[1].id) = {}
    /\ ret.v = 1

\* The strictly higher priority tasks of task i, in task-set order.
Higher(i) == SelectSeq(tasks, LAMBDA h : h.prio > tasks[i].prio)

\* The Exact outcomes of the strictly higher priority tasks of task i.
HigherExact(i) ==
    [k \in 1..Len(Higher(i)) |-> Result(response_time(Higher(i)[k], tasks, "Exact"))]

Failed(rs) == {k \in 1..Len(rs) : rs[k].kind = "Err"}

(***************************************************************************)
(* C8: whenever response_time(t, tasks, Approximate) returns, it returns   *)
(* the success value blocking_time(t) + wcet(t) + interference(t) (u32     *)
(* additions), and never an error, also when the value exceeds t.deadline. *)
(***************************************************************************)
C8_ApproximateIsOkSum ==
    (op = "response_time" /\ arg[2] = "Approximate" /\ ret.kind = "Returned") =>
        ret.v = [kind |-> "Ok",
                 v    |-> U32Add(U32Add(blocking_time(tasks[arg[1]], tasks).v,
                                        Task_wcet(tasks[arg[1]]).v).v,
                                 interference(tasks[arg[1]], tasks).v).v]

\* All three terms are positive, the task's own interval is well formed,
\* and the value returned as success exceeds the deadline.
C8_Witness ==
    /\ op = "response_time"
    /\ arg[2] = "Approximate"
    /\ ret.kind = "Returned"
    /\ ret.v.kind = "Ok"
    /\ U32Lt(tasks[arg[1]].deadline, ret.v.v)
    /\ U32Lt(U32Zero, blocking_time(tasks[arg[1]], tasks).v)
    /\ U32Lt(U32Zero, interference(tasks[arg[1]], tasks).v)
    /\ U32Lt(tasks[arg[1]].trace.start, tasks[arg[1]].trace.end)
    /\ ~ interference(tasks[arg[1]], tasks).ovf
    /\ ~ blocking_time(tasks[arg[1]], tasks).ovf

C10_ExactErrorPropagates ==
    (/\ op = "response_time" /\ arg[2] = "Exact" /\ ret.kind = "Returned"
     /\ Failed(HigherExact(arg[1])) # {}) =>
        /\ ret.v.kind = "Err"
        /\ \E k \in Failed(HigherExact(arg[1])) : ret.v = HigherExact(arg[1])[k]

\* The task's deadline is 2^25, far above what it and the tasks above it
\* execute, and it still fails with the error of a task above it.
C10_Witness ==
    /\ op = "response_time"
    /\ arg[2] = "Exact"
    /\ ret.kind = "Returned"
    /\ tasks[arg[1]].deadline = U32(33554432)
    /\ Failed(HigherExact(arg[1])) # {}
    /\ \A k \in 1..Len(tasks) : U32Le(tasks[k].trace.start, tasks[k].trace.end)
    /\ ret.v = [kind |-> "Err", msg |-> "Deadline missed"]

\* b_t + c_t + the Exact response times of the tasks above task i.
ExactTotal(i) ==
    IterSumFrom(AddChecked(blocking_time(tasks[i], tasks), Task_wcet(tasks[i])),
                [k \in 1..Len(HigherExact(i)) |-> HigherExact(i)[k].v]).v

(***************************************************************************)
(* C2: response_time(t, tasks, Exact) never panics, and when the Exact     *)
(* analysis of every strictly higher priority task succeeds it fails with  *)
(* "Deadline missed" if total > t.deadline and otherwise returns total,    *)
(* where total = blocking_time(t) + wcet(t) + the sum of those response    *)
(* times; a total equal to the deadline succeeds.                          *)
(***************************************************************************)
C2_ExactTotalNeverPanics ==
    (op = "response_time" /\ arg[2] = "Exact") =>
        /\ ret.kind = "Returned"
        /\ (Failed(HigherExact(arg[1])) = {}) =>
               ret.v = IF U32Lt(tasks[arg[1]].deadline, ExactTotal(arg[1]))
                       THEN [kind |-> "Err", msg |-> "Deadline missed"]
                       ELSE [kind |-> "Ok", v |-> ExactTotal(arg[1])]

\* The trace a wcet call was made on.
WcetNode ==
    IF op = "Task::wcet" THEN tasks[arg[1]].trace
                         ELSE NodeAt(tasks[arg[1]].trace, arg[2])

(***************************************************************************)
(* C3: wcet(x) returns end - start when end >= start, and when end < start *)
(* it fails with an InvalidTrace error: it neither panics nor returns a    *)
(* wrapped value.                                                          *)
(***************************************************************************)
C3_WcetGuarded ==
    (op \in {"Task::wcet", "Trace::wcet"}) =>
        IF U32Le(WcetNode.start, WcetNode.end)
        THEN ret = [kind |-> "Returned", v |-> U32Sub(WcetNode.end, WcetNode.start).v]
        ELSE ret.kind = "InvalidTrace"

(***************************************************************************)
(* C6: when some task has inter_arrival = 0, total_load_factor(tasks)      *)
(* returns the zero-inter-arrival error naming such a task, wherever that  *)
(* task stands and whatever the other tasks' start, end and inter_arrival  *)
(* are; no panic and no other failure comes first.                         *)
(***************************************************************************)
C6_ZeroInterArrivalAlwaysReported ==
    (/\ op = "total_load_factor"
     /\ \E k \in 1..Len(tasks) : tasks[k].inter_arrival = U32Zero) =>
        /\ ret.kind = "Returned"
        /\ ret.v.kind = "Err"
        /\ \E k \in 1..Len(tasks) :
               /\ tasks[k].inter_arrival = U32Zero
               /\ ret.v.msg = <<"Error: Task '{}' has an inter_arrival time of zero.",
                                tasks[k].id>>

\* A u32 below 2^31 as an integer.
AsInt(u) == u[1] * Limb + u[2]

Below(u, hi) == u[1] < hi

\* ceil(n / d) in the integers, d > 0.
CeilQuot(n, d) == (n + d - 1) \div d

RECURSIVE IntSum(_)
IntSum(s) == IF s = <<>> THEN 0 ELSE Head(s) + IntSum(Tail(s))

\* The busy period of task i as an integer.
ExactBusyPeriod(i) ==
    IntSum([k \in 1..Len(SelectSeq(tasks, LAMBDA t : t.prio >= tasks[i].prio)) |->
              AsInt(Task_wcet(SelectSeq(tasks, LAMBDA t : t.prio >= tasks[i].prio)[k]).v)])

\* wcet(h) * ceil(busy_period(t) / inter_arrival(h)) for each h above task i,
\* the ceiling taken in the integers.
ExactTerms(i) ==
    [k \in 1..Len(Higher(i)) |->
        U32Mul(Task_wcet(Higher(i)[k]).v,
               U32(CeilQuot(ExactBusyPeriod(i), AsInt(Higher(i)[k].inter_arrival))))]

\* The inputs on which the integer value of the interference is computed
\* here: well formed root intervals and execution times below 2^28,
\* inter-arrival times of the tasks above task i positive and below 2^28,
\* and a value that fits u32.
InterferenceRange(i) ==
    /\ \A k \in 1..Len(tasks) :
           /\ U32Le(tasks[k].trace.start, tasks[k].trace.end)
           /\ Below(tasks[k].trace.end, 4096)
    /\ \A k \in 1..Len(Higher(i)) :
           /\ Higher(i)[k].inter_arrival # U32Zero
           /\ Below(Higher(i)[k].inter_arrival, 4096)
    /\ ~ IterSum(ExactTerms(i)).ovf

(***************************************************************************)
(* C7: interference(t, tasks) returns the exact integer value of the sum   *)
(* over the strictly higher priority tasks h of                            *)
(* wcet(h) * ceil(busy_period(t) / inter_arrival(h)), where busy_period(t) *)
(* is the sum of wcet over the tasks with prio >= prio(t), without         *)
(* wraparound or saturation.                                               *)
(***************************************************************************)
C7_InterferenceExact ==
    (op = "interference" /\ InterferenceRange(arg[1])) =>
        ret = [kind |-> "Returned", v |-> IterSum(ExactTerms(arg[1])).v]

\* The priorities that occur in the task set.
Priorities == {tasks[k].prio : k \in 1..Len(tasks)}

\* Along the activations each callee has strictly higher priority than its
\* caller, and there are no more of them than distinct priorities.
DepthBounded ==
    /\ \A j \in 1..(Len(stack) - 1) :
           tasks[stack[j].self].prio < tasks[stack[j + 1].self].prio
    /\ Len(stack) <= Cardinality(Priorities)

\* The outermost call is over: it returned a Result or it panicked.
ExactOver == stack = <<>> /\ ret.kind \in {"Returned", "Panic"}

\* What the step-by-step recursion returns is what response_time computes.
ExactAgrees ==
    (op = "response_time" /\ ExactOver) =>
        ret = IF response_time(tasks[arg[1]], tasks, "Exact").ovf /\ overflow_checks
              THEN Panicked
              ELSE [kind |-> "Returned",
                    v    |-> Result(response_time(tasks[arg[1]], tasks, "Exact"))]

(***************************************************************************)
(* C11: for every task set, also with several tasks of the same priority,  *)
(* the Exact recursion of response_time terminates: every recursive call   *)
(* is on a task of strictly higher priority than its caller, the depth of  *)
(* the recursion never exceeds the number of distinct priorities, and      *)
(* every call that started is eventually over.                             *)
(***************************************************************************)
C11_ExactRecursionTerminates ==
    /\ []DepthBounded
    /\ (op = "response_time") ~> ExactOver

\* Three tasks, two of them of the same priority: a call on one of the two
\* has reached a task above them, at depth 2, the number of priorities.
C11_Witness ==
    /\ Len(tasks) = 3
    /\ Cardinality(Priorities) = 2
    /\ Len(stack) = 2
    /\ \E k \in 1..Len(tasks) :
           k # stack[1].self /\ tasks[k].prio = tasks[stack[1].self].prio

\* Values tried in place of the default of unwrap_or(1); prio is a u8.
Defaults == {0, 1, 2, 3, 255}

\* The ceiling of resource id `rid` if the default were d.
CeilingWith(rid, d) ==
    IF Users(rid) = {} THEN d
    ELSE IntSetMax({tasks[k].prio : k \in Users(rid)})

\* The critical sections that can block task i if the default were d.
BlockersWith(i, d) ==
    UNION { { Trace_wcet(NodeAt(tasks[l].trace, p)).v :
                p \in { q \in AllPaths(tasks[l].trace) :
                          CeilingWith(NodeAt(tasks[l].trace, q).id, d)
                              >= tasks[i].prio } } :
            l \in { k \in 1..Len(tasks) : tasks[k].prio < tasks[i].prio } }

MaxOr0(S) == IF S = {} THEN U32Zero ELSE U32SetMax(S)

\* The strictly lower priority tasks of task i that hold a resource.
LowerHolders(i) ==
    { l \in 1..Len(tasks) :
        tasks[l].prio < tasks[i].prio /\ tasks[l].trace.inner # <<>> }

(***************************************************************************)
(* C12: in blocking_time(t, tasks) every trace r examined lies below some  *)
(* lower priority task l of the same set, so l itself is among the tasks   *)
(* ceiling_priority(r, tasks) takes the maximum over: the ceiling is at    *)
(* least prio(l) and the default 1 is not used.  Hence the value returned  *)
(* is the same whatever the default is, and blocking_time returns 0 for a  *)
(* task with no strictly lower priority task that holds a resource.        *)
(***************************************************************************)
C12_DefaultCeilingUnused ==
    (op = "blocking_time") =>
        /\ \A l \in LowerHolders(arg[1]) : \A p \in AllPaths(tasks[l].trace) :
               /\ l \in Users(NodeAt(tasks[l].trace, p).id)
               /\ ceiling_priority(NodeAt(tasks[l].trace, p), tasks) >= tasks[l].prio
        /\ (ret.kind = "Returned") =>
               \A d \in Defaults : ret.v = MaxOr0(BlockersWith(arg[1], d))
        /\ (LowerHolders(arg[1]) = {}) =>
               ret = [kind |-> "Returned", v |-> U32Zero]

\* A task of priority 3 above a task of priority 2 whose resources have
\* ceiling 2, not the default, and a task of priority 1 that blocks it.
C12_Witness ==
    /\ op = "blocking_time"
    /\ ret.kind = "Returned"
    /\ ret.v = U32(2)
    /\ tasks[arg[1]].prio = 3
    /\ \E l \in LowerHolders(arg[1]) : \E p \in AllPaths(tasks[l].trace) :
           /\ tasks[l].prio = 2
           /\ ceiling_priority(NodeAt(tasks[l].trace, p), tasks) = 2
    /\ \A l \in LowerHolders(arg[1]) : \A p \in AllPaths(tasks[l].trace) :
           ~ Trace_wcet(NodeAt(tasks[l].trace, p)).ovf

====
